---------------------------- MODULE Spec2Model ----------------------------
(***************************************************************************)
(* A model of the ring buffer of src/ringbuf.c: a byte FIFO whose storage  *)
(* is one memory object mapped twice at consecutive addresses, guarded by  *)
(* a mutex and two condition variables (readable, writeable).              *)
(*                                                                         *)
(* Every public function takes the mutex first and gives it up only when   *)
(* it waits on a condition variable or returns, so one action of the model *)
(* is one critical section: from g_mutex_lock (or from the wake-up of a    *)
(* g_cond_wait) to the next g_cond_wait or to g_mutex_unlock.              *)
(*                                                                         *)
(* Scaling: bytes are 0..MaxByte, the page size is PageSize bytes and      *)
(* gsize arithmetic is modulo GSizeMod instead of modulo 2^64.             *)
(***************************************************************************)
EXTENDS Integers, Sequences, FiniteSets, TLC

VARIABLES
    rb,         \* per buffer, the ringbuf_t: buf, head, tail, buffer_size, block_on_full
    mutex,      \* per buffer, rb->mutex: the thread that holds it, or NoThread
    readable,   \* per buffer, rb->readable: the threads waiting on it
    writeable,  \* per buffer, rb->writeable: the threads waiting on it
    pc,         \* per thread: "idle", "wait" (inside g_cond_wait), "woken",
                \* "view" (between ringbuf_reserve and ringbuf_commit),
                \* "lock2" (in ringbuf_direct_copy, before its second lock),
                \* "relock" (locking a mutex that it holds),
                \* "ask2" (in ringbuf_is_empty, before its second call)
    call,       \* per thread: the call it is inside of, or NoCall
    extra,      \* how far past buffer_size the callers' size arguments go
    live,       \* the threads that make calls
    crashed,    \* the process was killed by a fault
    oob,        \* a copy has touched bytes outside the mapped window
    view,       \* per thread: the range ringbuf_reserve gave it, until it commits
    fifo,       \* observer, per buffer: the chunks pushed and not yet popped
    last        \* observer: the last call that returned, with what it returned

vars == <<rb, mutex, readable, writeable, pc, call, extra, live, crashed, oob,
          view, fifo, last>>

-----------------------------------------------------------------------------
(* Sizes of the model *)

PageSize == 2
GSizeMod == 32
MaxByte == 1
MaxReq == 3
MaxNew == 4
NThreads == 3
MaxOver == 1
BlockSize == 2

Byte == 0..MaxByte
Threads == 1..NThreads
Pair == {1, 2}
Producers == {1}
Consumers == Threads \ Producers
Bufs == {1, 2}
NoThread == 0
NoCall == [op |-> "none", rb |-> 0, size |-> 0]
NULL == -1

\* no range reserved; of a range: the buffer, the offset of the pointer that
\* ringbuf_reserve returned, the size, and for the observer the bytes written
\* so far and the buffer as it was before the reservation
NoView == [rb |-> 0, off |-> 0, size |-> 0, src |-> <<>>,
           pre |-> [buf |-> <<>>, head |-> 0, tail |-> 0, buffer_size |-> 0,
                    block_on_full |-> FALSE]]

Max(S) == CHOOSE x \in S : \A y \in S : y <= x
Min(S) == CHOOSE x \in S : \A y \in S : x <= y

\* gsize arithmetic: unsigned, wrapping
GAdd(a, b) == (a + b) % GSizeMod
GSub(a, b) == (a - b + GSizeMod) % GSizeMod

\* the model follows a cursor of r only while it is at most MaxOver past the
\* mapped window, or less than a buffer size below zero
InRange(r, v) == v <= 2 * r.buffer_size + MaxOver \/ v >= GSizeMod - r.buffer_size

-----------------------------------------------------------------------------
(* ringbuf_new *)

RoundSize(size) ==
    IF size % PageSize # 0
    THEN IF size < PageSize THEN 2 * PageSize
         ELSE (size \div PageSize + 1) * PageSize
    ELSE size

\* the steps of the construction that can fail
Steps == {"memfd_create", "ftruncate", "mmap_reserve", "mmap_first", "mmap_second"}
NoStep == "none"

\* the offsets lo..(hi - 1) from buf at which the memory object of s bytes can
\* be accessed, when the step fail of the construction has failed: none when
\* the object has no size or no address range was found, the other mapping
\* alone when one of the two mappings failed
Mapped(s, fail) ==
    IF fail \in {"memfd_create", "ftruncate", "mmap_reserve"} THEN [lo |-> 0, hi |-> 0]
    ELSE IF fail = "mmap_first" THEN [lo |-> s, hi |-> 2 * s]
    ELSE IF fail = "mmap_second" THEN [lo |-> 0, hi |-> s]
    ELSE [lo |-> 0, hi |-> 2 * s]

\* the structure that the construction fills in; lo and hi stand for what is
\* mapped at buf
NewStruct(size, block, fail) ==
    LET s == RoundSize(size) IN
    [ buf           |-> [p \in 0..(s - 1) |-> 0],
      head          |-> 0,
      tail          |-> 0,
      buffer_size   |-> s,
      block_on_full |-> block,
      lo            |-> Mapped(s, fail).lo,
      hi            |-> Mapped(s, fail).hi ]

\* what the construction returns: NULL when the memory object could not be
\* created, the structure (1) otherwise
NewReturns(fail) == IF fail = "memfd_create" THEN NULL ELSE 1

ringbuf_new(size, block) == NewStruct(size, block, NoStep)

-----------------------------------------------------------------------------
(* Accounting *)

\* an accounting that reduces head - tail modulo the buffer size
BytesFreeModulo(r) ==
    IF r.tail <= r.head
    THEN GSub(r.buffer_size, GSub(r.head, r.tail) % r.buffer_size)
    ELSE GSub(r.tail, r.head)

ringbuf_bytes_free_unlocked(r) ==
    IF r.tail <= r.head
    THEN GSub(r.buffer_size, GSub(r.head, r.tail))
    ELSE GSub(r.tail, r.head)

ringbuf_bytes_used_unlocked(r) ==
    GSub(r.buffer_size, ringbuf_bytes_free_unlocked(r))

-----------------------------------------------------------------------------
(* The doubly mapped storage: offsets o and o + buffer_size of the window  *)
(* of 2 * buffer_size bytes are the same byte of the memory object.        *)

\* the n bytes at offset off lie inside the two mappings
InWindow(r, off, n) == n = 0 \/ (r.lo <= off /\ off + n <= r.hi)

\* a storage mapped once: a byte past the end of the memory object is not stored
MemcpyIntoSingleMapping(r, off, src, order) ==
    [ p \in DOMAIN r.buf |->
        IF p >= off /\ p - off + 1 <= Len(src) THEN src[p - off + 1] ELSE r.buf[p] ]

\* memcpy (r.buf + off, src, Len(src)): a byte outside the window is not
\* stored; where two bytes of src land on one byte of the memory object the
\* copy order decides
MemcpyInto(r, off, src, order) ==
    LET stored(i) == i <= Len(src) /\ r.lo <= off + i - 1 /\ off + i - 1 < r.hi IN
    [ p \in DOMAIN r.buf |->
        LET i1 == ((p - off) % r.buffer_size) + 1
            i2 == i1 + r.buffer_size
        IN  IF stored(i2) THEN src[IF order = "fwd" THEN i2 ELSE i1]
            ELSE IF stored(i1) THEN src[i1]
            ELSE r.buf[p] ]

\* memcpy (dst, r.buf + off, n): a byte outside the window reads as junk
MemcpyFrom(r, off, n, junk) ==
    [ i \in 1..n |->
        IF r.lo <= off + i - 1 /\ off + i - 1 < r.hi
        THEN r.buf[(off + i - 1) % r.buffer_size]
        ELSE junk[i] ]

\* what the bytes outside the window can read as
Junk(r, off, n) ==
    IF InWindow(r, off, n) THEN { [i \in 1..n |-> 0] } ELSE [1..n -> Byte]

\* the copy orders that can be told apart
Orders(r, n) == IF n > r.buffer_size THEN {"fwd", "bwd"} ELSE {"fwd"}

\* a reduction of tail that leaves head where it is
NormalizeTailOnly(r) ==
    IF r.tail >= r.buffer_size
    THEN [r EXCEPT !.tail = GSub(r.tail, r.buffer_size)]
    ELSE r

\* the cursor reduction that follows every advance of tail
Normalize(r) ==
    IF r.tail >= r.buffer_size
    THEN [r EXCEPT !.head = GSub(r.head, r.buffer_size),
                   !.tail = GSub(r.tail, r.buffer_size)]
    ELSE r

-----------------------------------------------------------------------------
(* Threads, calls and condition variables *)

\* the size arguments callers pass for buffer b
Sizes(b) == 1..(rb[b].buffer_size + extra)

\* the call records a thread can enter the critical section of op with:
\* a new call when it is idle, its own call again when it was woken
Entering(t, b, op, args) ==
    IF pc[t] = "idle" THEN args
    ELSE IF pc[t] = "woken" /\ call[t].op = op /\ call[t].rb = b THEN {call[t]}
    ELSE {}

Args(b, op) == { [op |-> op, rb |-> b, size |-> n] : n \in Sizes(b) }

\* the contents a caller's memory of n bytes can have
Data(n) == [1..n -> Byte]

\* g_mutex_lock succeeds
Lock(t, b) == ~crashed /\ mutex[b] = NoThread

\* a signal that reaches no waiter
SignalledNobody(cv) == {NoThread}

\* g_cond_signal: one of the waiters, if there is any
Signalled(cv) == IF cv = {} THEN {NoThread} ELSE cv

\* The observer of buffer b is the FIFO its callers expect: chunks are the
\* byte sequences pushed and not yet popped, oldest first; torn says that the
\* oldest is what a pop left of a chunk; exact says that the chunks are every
\* byte between tail and head, which holds from the moment the buffer is
\* empty until a call goes past what is stored or what is free.
Empty == [chunks |-> <<>>, torn |-> FALSE, exact |-> TRUE]
Lost == [chunks |-> <<>>, torn |-> FALSE, exact |-> FALSE]

RECURSIVE Flat(_)
Flat(chunks) == IF chunks = <<>> THEN <<>> ELSE Head(chunks) \o Flat(Tail(chunks))

RECURSIVE Drop(_, _)
Drop(chunks, n) ==
    IF n = 0 \/ chunks = <<>> THEN chunks
    ELSE IF n >= Len(Head(chunks)) THEN Drop(Tail(chunks), n - Len(Head(chunks)))
    ELSE <<SubSeq(Head(chunks), n + 1, Len(Head(chunks)))>> \o Tail(chunks)

RECURSIVE Cuts(_, _)
Cuts(chunks, n) ==
    IF n = 0 \/ chunks = <<>> THEN FALSE
    ELSE IF n >= Len(Head(chunks)) THEN Cuts(Tail(chunks), n - Len(Head(chunks)))
    ELSE TRUE

\* the threads that hold a reserved range of buffer b
Pending(b) == {t \in Threads : view[t].rb = b}

\* the observer after a call that appended src to buffer b, leaving it as r
FifoPush(b, r, src) ==
    IF Pending(b) # {} THEN Lost
    ELSE IF r.head = r.tail THEN Empty
    ELSE IF fifo[b].exact /\ Len(Flat(fifo[b].chunks)) + Len(src) <= r.buffer_size
    THEN [fifo[b] EXCEPT !.chunks = Append(@, src)]
    ELSE Lost

\* the observer after a call that consumed n bytes of buffer b, leaving it as r
FifoPop(b, r, n) ==
    IF r.head = r.tail /\ Pending(b) = {} THEN Empty
    ELSE IF fifo[b].exact /\ n <= Len(Flat(fifo[b].chunks))
    THEN [chunks |-> Drop(fifo[b].chunks, n),
          torn |-> Cuts(fifo[b].chunks, n),
          exact |-> TRUE]
    ELSE Lost

\* the observer after a call that moved a cursor without a copy
FifoLost(b, r) == IF r.head = r.tail /\ Pending(b) = {} THEN Empty ELSE Lost

\* the observer after ringbuf_reserve took n bytes of buffer b
FifoReserve(b, n) ==
    IF /\ fifo[b].exact
       /\ Pending(b) = {}
       /\ Len(Flat(fifo[b].chunks)) + n <= rb[b].buffer_size
    THEN fifo[b]
    ELSE Lost

\* the observer after thread t committed the bytes src it wrote to buffer b
FifoCommit(t, b, r, src) ==
    IF Pending(b) # {t} \/ Len(src) # view[t].size THEN Lost
    ELSE IF r.head = r.tail THEN Empty
    ELSE IF fifo[b].exact THEN [fifo[b] EXCEPT !.chunks = Append(@, src)]
    ELSE Lost

\* the thread waits on a condition variable, giving up the mutex
CondWait(t, c, cv) ==
    /\ pc' = [pc EXCEPT ![t] = "wait"]
    /\ call' = [call EXCEPT ![t] = c]
    /\ IF cv = "readable"
       THEN readable' = [readable EXCEPT ![c.rb] = @ \cup {t}] /\ UNCHANGED writeable
       ELSE writeable' = [writeable EXCEPT ![c.rb] = @ \cup {t}] /\ UNCHANGED readable
    /\ UNCHANGED <<rb, mutex, extra, live, crashed, oob, view, fifo, last>>

\* the call of thread t on buffer b returns l.ret, leaving the buffer as r2;
\* cv is the condition variable it signals (or "none"), g the observer
Finish(t, b, r2, cv, g, l, outside) ==
    /\ InRange(r2, r2.head) /\ InRange(r2, r2.tail)
    /\ rb' = [rb EXCEPT ![b] = r2]
    /\ \E w \in (IF cv = "readable" THEN Signalled(readable[b])
                 ELSE IF cv = "writeable" THEN Signalled(writeable[b])
                 ELSE {NoThread}) :
         /\ readable' = [readable EXCEPT ![b] = IF cv = "readable" THEN @ \ {w} ELSE @]
         /\ writeable' = [writeable EXCEPT ![b] = IF cv = "writeable" THEN @ \ {w} ELSE @]
         /\ pc' = [x \in Threads |-> IF x = t THEN "idle"
                                       ELSE IF x = w THEN "woken" ELSE pc[x]]
    /\ call' = [call EXCEPT ![t] = NoCall]
    /\ oob' = (oob \/ outside)
    /\ view' = [view EXCEPT ![t] = NoView]
    /\ fifo' = [fifo EXCEPT ![b] = g]
    /\ last' = l
    /\ UNCHANGED <<mutex, extra, live, crashed>>

\* the observer's record of a call that returned: ret is the value returned and
\* out the bytes copied to the caller; head and tail are the cursors before the
\* call and view the range the thread held; of the observer before the call,
\* exact, the number of chunks, whether the call's size is that of a whole
\* oldest chunk, and exp, the oldest bytes up to the call's size
Returned(t, op, b, n, ret, out) ==
    [op |-> op, rb |-> b, size |-> n, ret |-> ret, out |-> out,
     head |-> rb[b].head, tail |-> rb[b].tail, view |-> view[t],
     exact |-> fifo[b].exact,
     chunks |-> Len(fifo[b].chunks),
     whole |-> /\ fifo[b].chunks # <<>>
               /\ ~fifo[b].torn
               /\ n = Len(Head(fifo[b].chunks)),
     exp |-> LET f == Flat(fifo[b].chunks) IN
             SubSeq(f, 1, IF n <= Len(f) THEN n ELSE Len(f))]

\* the copy faults: the process is killed
Fault ==
    /\ crashed' = TRUE
    /\ UNCHANGED <<rb, mutex, readable, writeable, pc, call, extra, live, oob,
                   view, fifo, last>>

-----------------------------------------------------------------------------
(* ringbuf_push *)

\* head advanced before the copy instead of after it
PushBodyAdvanceFirst(r, src, order) ==
    [r EXCEPT !.buf = MemcpyInto(r, GAdd(r.head, Len(src)), src, order),
              !.head = GAdd(r.head, Len(src))]

\* the buffer after the copy and the advance of head
PushBody(r, src, order) ==
    [r EXCEPT !.buf = MemcpyInto(r, r.head, src, order),
              !.head = GAdd(r.head, Len(src))]

\* a writer that wakes up without rechecking the space
PushMustWaitOnce(r, n, again) ==
    ~again /\ r.block_on_full /\ ringbuf_bytes_free_unlocked(r) < n

\* the loop condition of a writer; again: it has been woken from the wait
PushMustWait(r, n, again) ==
    r.block_on_full /\ ringbuf_bytes_free_unlocked(r) < n

\* src is what the caller's memory holds when the copy is made
ringbuf_push(t, b) ==
    \E c \in Entering(t, b, "push", Args(b, "push")) :
        LET r == rb[b] IN
        /\ Lock(t, b)
        /\ IF PushMustWait(r, c.size, pc[t] = "woken")
           THEN CondWait(t, c, "writeable")
           ELSE \/ ~InWindow(r, r.head, c.size) /\ Fault
                \/ \E src \in Data(c.size), order \in Orders(r, c.size) :
                     LET r2 == PushBody(r, src, order) IN
                     Finish(t, b, r2, "readable", FifoPush(b, r2, src),
                            Returned(t, "push", b, c.size, r2.head, <<>>),
                            ~InWindow(r, r.head, c.size))

-----------------------------------------------------------------------------
(* ringbuf_pop, ringbuf_timed_pop, ringbuf_move_tail *)

\* tail set to the size instead of advanced by it
PopBodyAssign(r, n) == Normalize([r EXCEPT !.tail = n])

\* the buffer after the advance of tail
PopBody(r, n) == Normalize([r EXCEPT !.tail = GAdd(r.tail, n)])

\* the copy out of the buffer and the advance of tail, common to both pops
PopCopy(t, b, c) ==
    LET r == rb[b] IN
    \/ ~InWindow(r, r.tail, c.size) /\ Fault
    \/ \E junk \in Junk(r, r.tail, c.size) :
         LET r2 == PopBody(r, c.size) IN
         Finish(t, b, r2, "writeable", FifoPop(b, r2, c.size),
                Returned(t, c.op, b, c.size, GAdd(r.tail, c.size),
                         MemcpyFrom(r, r.tail, c.size, junk)),
                ~InWindow(r, r.tail, c.size))

\* a reader that waits only while the buffer is empty
PopMustWaitEmpty(r, n) == r.tail = r.head

\* the loop condition of a reader of n bytes
PopMustWait(r, n) == ringbuf_bytes_used_unlocked(r) < n

\* the loop condition of ringbuf_timed_pop
TimedPopMustWait(r, n) == r.tail = r.head

ringbuf_pop(t, b) ==
    \E c \in Entering(t, b, "pop", Args(b, "pop")) :
        /\ Lock(t, b)
        /\ IF PopMustWait(rb[b], c.size)
           THEN CondWait(t, c, "readable")
           ELSE PopCopy(t, b, c)

ringbuf_timed_pop(t, b) ==
    \E c \in Entering(t, b, "timed_pop", Args(b, "timed_pop")) :
        /\ Lock(t, b)
        /\ IF TimedPopMustWait(rb[b], c.size)
           THEN CondWait(t, c, "readable")
           ELSE PopCopy(t, b, c)

ringbuf_move_tail(t, b) ==
    \E c \in Entering(t, b, "move_tail", Args(b, "move_tail")) :
        LET r == rb[b] IN
        /\ Lock(t, b)
        /\ IF PopMustWait(r, c.size)
           THEN CondWait(t, c, "readable")
           ELSE LET r2 == PopBody(r, c.size) IN
                Finish(t, b, r2, "writeable", FifoPop(b, r2, c.size),
                       Returned(t, "move_tail", b, c.size, GAdd(r.tail, c.size), <<>>),
                       FALSE)

\* waits until size bytes are stored and returns how many are, changing
\* nothing and signalling nothing
ringbuf_wait_for_data(t, b) ==
    \E c \in Entering(t, b, "wait_for_data", Args(b, "wait_for_data")) :
        LET r == rb[b] IN
        /\ Lock(t, b)
        /\ IF PopMustWait(r, c.size)
           THEN CondWait(t, c, "readable")
           ELSE Finish(t, b, r, "none", fifo[b],
                       Returned(t, "wait_for_data", b, c.size,
                                ringbuf_bytes_used_unlocked(r), <<>>),
                       FALSE)

\* g_cond_wait_until gives up at the deadline: the timed call returns NULL (0)
TimedOut(t) ==
    /\ pc[t] = "wait"
    /\ call[t].op \in {"timed_pop", "wait_for_data_timed"}
    /\ Lock(t, call[t].rb)
    /\ readable' = [readable EXCEPT ![call[t].rb] = @ \ {t}]
    /\ pc' = [pc EXCEPT ![t] = "idle"]
    /\ call' = [call EXCEPT ![t] = NoCall]
    /\ last' = Returned(t, call[t].op, call[t].rb, call[t].size,
                        IF call[t].op = "timed_pop" THEN NULL ELSE 0, <<>>)
    /\ UNCHANGED <<rb, mutex, writeable, extra, live, crashed, oob, view, fifo>>

\* a wait on a condition variable can end without a signal
SpuriousWakeup(t) ==
    /\ pc[t] = "wait"
    /\ ~crashed
    /\ readable' = [readable EXCEPT ![call[t].rb] = @ \ {t}]
    /\ writeable' = [writeable EXCEPT ![call[t].rb] = @ \ {t}]
    /\ pc' = [pc EXCEPT ![t] = "woken"]
    /\ UNCHANGED <<rb, mutex, call, extra, live, crashed, oob, view, fifo, last>>

-----------------------------------------------------------------------------
(* ringbuf_move_head, ringbuf_reset *)

ringbuf_move_head(t, b) ==
    \E c \in Entering(t, b, "move_head", Args(b, "move_head")) :
        LET r2 == [rb[b] EXCEPT !.head = GAdd(@, c.size)] IN
        /\ Lock(t, b)
        /\ Finish(t, b, r2, "none", FifoLost(b, r2),
                  Returned(t, "move_head", b, c.size, r2.head, <<>>), FALSE)

\* a reset of head alone
ResetBodyHeadOnly(r) == [r EXCEPT !.head = 0]

\* the buffer after the reset
ResetBody(r) == [r EXCEPT !.head = 0, !.tail = 0]

ringbuf_reset(t, b) ==
    LET r2 == ResetBody(rb[b]) IN
    /\ pc[t] = "idle"
    /\ Lock(t, b)
    /\ Finish(t, b, r2, "none", FifoLost(b, r2),
              Returned(t, "reset", b, 0, 0, <<>>), FALSE)

-----------------------------------------------------------------------------
(* ringbuf_reserve, the caller's writes through the pointer, ringbuf_commit *)

\* a reservation that leaves the advance of head to the commit
ReserveBodyNoAdvance(r, n) == r

\* the buffer after the advance of head
ReserveBody(r, n) == [r EXCEPT !.head = GAdd(r.head, n)]

\* returns the pointer buf + head of before the advance, and signals nothing
ringbuf_reserve(t, b) ==
    \E c \in Entering(t, b, "reserve", Args(b, "reserve")) :
        LET r == rb[b]
            r2 == ReserveBody(r, c.size)
        IN  /\ Lock(t, b)
            /\ IF PushMustWait(r, c.size, pc[t] = "woken")
               THEN CondWait(t, c, "writeable")
               ELSE /\ InRange(r2, r2.head)
                    /\ rb' = [rb EXCEPT ![b] = r2]
                    /\ pc' = [pc EXCEPT ![t] = "view"]
                    /\ call' = [call EXCEPT ![t] = NoCall]
                    /\ view' = [view EXCEPT ![t] =
                                  [rb |-> b, off |-> r.head, size |-> c.size,
                                   src |-> <<>>, pre |-> r]]
                    /\ fifo' = [fifo EXCEPT ![b] = FifoReserve(b, c.size)]
                    /\ last' = Returned(t, "reserve", b, c.size, r.head, <<>>)
                    /\ UNCHANGED <<mutex, readable, writeable, extra, live,
                                   crashed, oob>>

\* the caller stores the next byte of its range, without the mutex
WriteView(t) ==
    LET v == view[t]
        r == rb[v.rb]
        off == v.off + Len(v.src)
    IN  /\ pc[t] = "view"
        /\ ~crashed
        /\ Len(v.src) < v.size
        /\ \/ ~InWindow(r, off, 1) /\ Fault
           \/ \E x \in Byte :
                /\ rb' = [rb EXCEPT ![v.rb].buf = MemcpyInto(r, off, <<x>>, "fwd")]
                /\ view' = [view EXCEPT ![t].src = Append(@, x)]
                /\ oob' = (oob \/ ~InWindow(r, off, 1))
                /\ UNCHANGED <<mutex, readable, writeable, pc, call, extra, live,
                               crashed, fifo, last>>

\* thread t has written the whole of its range
Whole(t) == Len(view[t].src) = view[t].size

\* the caller commits what it has written of its range; the call has no
\* argument but the buffer
ringbuf_commit(t, b) ==
    /\ pc[t] = "view"
    /\ view[t].rb = b
    /\ Lock(t, b)
    /\ Finish(t, b, rb[b], "readable", FifoCommit(t, b, rb[b], view[t].src),
              Returned(t, "commit", b, view[t].size, 0, <<>>), FALSE)

-----------------------------------------------------------------------------
(* ringbuf_direct_copy *)

\* the call records of a copy from buffer a to buffer b
SpliceArgs(a, b) ==
    { [op |-> "direct_copy", rb |-> a, size |-> n, dst |-> b] : n \in Sizes(a) }

\* thread t is inside a copy from a to b, at the place at
Splicing(t, a, b, at) ==
    /\ pc[t] = at
    /\ call[t].op = "direct_copy"
    /\ call[t].rb = a
    /\ call[t].dst = b

\* the mutexes taken in the order of the arguments
SpliceLockOrder(a, b) == <<a, b>>

\* a copy to the tail of the destination instead of its head
SpliceIntoAtTail(r, src, order) ==
    [r EXCEPT !.buf = MemcpyInto(r, r.tail, src, order),
              !.head = GAdd(r.head, Len(src))]

\* the destination after the copy of the bytes src and the advance of head
SpliceInto(r, src, order) == PushBody(r, src, order)

\* the record of a copy that returned: that of the source, with both buffers
\* as they were before the call and the observer of the destination
Spliced(t, c, out) ==
    Returned(t, "direct_copy", c.rb, c.size, 1, out) @@
    [ dst |-> c.dst, from |-> rb[c.rb], to |-> rb[c.dst],
      toexact |-> fifo[c.dst].exact ]

\* thread t holds both mutexes: the wait for data, the wait for space, the
\* copy and the return
SpliceBody(t, c) ==
    LET rs == rb[c.rb]
        rd == rb[c.dst]
    IN  IF rs.tail = rs.head
        THEN /\ mutex' = [mutex EXCEPT ![c.dst] = t, ![c.rb] = NoThread]
             /\ pc' = [pc EXCEPT ![t] = "wait"]
             /\ readable' = [readable EXCEPT ![c.rb] = @ \cup {t}]
             /\ UNCHANGED <<rb, writeable, call, extra, live, crashed, oob, view,
                            fifo, last>>
        ELSE IF rd.block_on_full
        THEN \* ringbuf_bytes_free (dst) locks the mutex that t holds
             /\ mutex' = [mutex EXCEPT ![c.dst] = t, ![c.rb] = t]
             /\ pc' = [pc EXCEPT ![t] = "relock"]
             /\ UNCHANGED <<rb, readable, writeable, call, extra, live, crashed,
                            oob, view, fifo, last>>
        ELSE LET outside == ~InWindow(rs, rs.tail, c.size) \/ ~InWindow(rd, rd.head, c.size) IN
             \/ outside /\ Fault
             \/ \E junk \in Junk(rs, rs.tail, c.size), order \in Orders(rd, c.size) :
                  LET data == MemcpyFrom(rs, rs.tail, c.size, junk)
                      rd2 == SpliceInto(rd, data, order)
                      rs2 == PopBody(rs, c.size)
                  IN  /\ InRange(rd2, rd2.head) /\ InRange(rs2, rs2.tail)
                      /\ rb' = [rb EXCEPT ![c.rb] = rs2, ![c.dst] = rd2]
                      /\ \E w1 \in Signalled(readable[c.dst]),
                            w2 \in Signalled(writeable[c.rb]) :
                           /\ readable' = [readable EXCEPT ![c.dst] = @ \ {w1}]
                           /\ writeable' = [writeable EXCEPT ![c.rb] = @ \ {w2}]
                           /\ pc' = [x \in Threads |->
                                       IF x = t THEN "idle"
                                       ELSE IF x \in {w1, w2} THEN "woken"
                                       ELSE pc[x]]
                      /\ mutex' = [mutex EXCEPT ![c.dst] = NoThread, ![c.rb] = NoThread]
                      /\ call' = [call EXCEPT ![t] = NoCall]
                      /\ oob' = (oob \/ outside)
                      /\ fifo' = [fifo EXCEPT ![c.rb] = FifoPop(c.rb, rs2, c.size),
                                              ![c.dst] = FifoPush(c.dst, rd2, data)]
                      /\ last' = Spliced(t, c, data)
                      /\ UNCHANGED <<extra, live, crashed, view>>

\* a is the source and b the destination
ringbuf_direct_copy(t, a, b) ==
    LET first == SpliceLockOrder(a, b)[1]
        second == SpliceLockOrder(a, b)[2]
    IN  \/ \E c \in SpliceArgs(a, b) :
             /\ pc[t] = "idle"
             /\ Lock(t, first)
             /\ mutex' = [mutex EXCEPT ![first] = t]
             /\ pc' = [pc EXCEPT ![t] = "lock2"]
             /\ call' = [call EXCEPT ![t] = c]
             /\ UNCHANGED <<rb, readable, writeable, extra, live, crashed, oob,
                            view, fifo, last>>
        \/ /\ Splicing(t, a, b, "lock2")
           /\ Lock(t, second)
           /\ SpliceBody(t, call[t])
        \/ /\ Splicing(t, a, b, "woken")
           /\ Lock(t, a)
           /\ SpliceBody(t, call[t])

-----------------------------------------------------------------------------
(* ringbuf_bytes_free, ringbuf_bytes_used, ringbuf_is_full, ringbuf_is_empty *)

TRUE_ == 1
FALSE_ == 0
Bool(p) == IF p THEN TRUE_ ELSE FALSE_

\* a call that takes the mutex, reads the accounting and returns ret
Ask(t, b, op, ret) ==
    /\ pc[t] = "idle"
    /\ Lock(t, b)
    /\ last' = Returned(t, op, b, 0, ret, <<>>)
    /\ UNCHANGED <<rb, mutex, readable, writeable, pc, call, extra, live,
                   crashed, oob, view, fifo>>

ringbuf_bytes_free(t, b) ==
    Ask(t, b, "bytes_free", ringbuf_bytes_free_unlocked(rb[b]))

ringbuf_bytes_used(t, b) ==
    Ask(t, b, "bytes_used",
        GSub(rb[b].buffer_size, ringbuf_bytes_free_unlocked(rb[b])))

ringbuf_is_full(t, b) ==
    Ask(t, b, "is_full", Bool(ringbuf_bytes_free_unlocked(rb[b]) = 0))

\* two calls of ringbuf_bytes_free, each with its own critical section, and
\* the comparison of what they return
ringbuf_is_empty(t, b) ==
    \/ /\ pc[t] = "idle"
       /\ Lock(t, b)
       /\ pc' = [pc EXCEPT ![t] = "ask2"]
       /\ call' = [call EXCEPT ![t] =
                     [op |-> "is_empty", rb |-> b,
                      size |-> ringbuf_bytes_free_unlocked(rb[b])]]
       /\ UNCHANGED <<rb, mutex, readable, writeable, extra, live, crashed,
                      oob, view, fifo, last>>
    \/ /\ pc[t] = "ask2"
       /\ call[t].op = "is_empty" /\ call[t].rb = b
       /\ Lock(t, b)
       /\ pc' = [pc EXCEPT ![t] = "idle"]
       /\ call' = [call EXCEPT ![t] = NoCall]
       /\ last' = Returned(t, "is_empty", b, 0,
                           Bool(call[t].size = ringbuf_bytes_free_unlocked(rb[b])),
                           <<>>)
       /\ UNCHANGED <<rb, mutex, readable, writeable, extra, live, crashed,
                      oob, view, fifo>>

\* the pointers that ringbuf_head and ringbuf_tail return, as offsets from buf
HeadPointer(r) == r.head
TailPointer(r) == r.tail

ringbuf_head(t, b) == Ask(t, b, "head", HeadPointer(rb[b]))

ringbuf_tail(t, b) == Ask(t, b, "tail", TailPointer(rb[b]))

-----------------------------------------------------------------------------
(* The specification *)

NoLast == [op |-> "none", rb |-> 0, size |-> 0, ret |-> NULL, out |-> <<>>,
           head |-> 0, tail |-> 0, view |-> NoView,
           exact |-> TRUE, chunks |-> 0, whole |-> FALSE, exp |-> <<>>]

InitWith(reqs, x, lv) ==
    /\ \E size \in reqs, block \in BOOLEAN :
         rb = [b \in Bufs |-> ringbuf_new(size, block)]
    /\ mutex = [b \in Bufs |-> NoThread]
    /\ readable = [b \in Bufs |-> {}]
    /\ writeable = [b \in Bufs |-> {}]
    /\ pc = [t \in Threads |-> "idle"]
    /\ call = [t \in Threads |-> NoCall]
    /\ extra = x
    /\ live = lv
    /\ crashed = FALSE
    /\ oob = FALSE
    /\ view = [t \in Threads |-> NoView]
    /\ fifo = [b \in Bufs |-> Empty]
    /\ last = NoLast

\* push and pop, with the wake-ups that no signal causes
Queueing ==
    \/ \E t \in live : ringbuf_push(t, 1)
    \/ \E t \in live : ringbuf_pop(t, 1)
    \/ \E t \in live : SpuriousWakeup(t)

\* the calls that copy, with the ends of their waits
Copying ==
    \/ Queueing
    \/ \E t \in live : ringbuf_timed_pop(t, 1)
    \/ \E t \in live : ringbuf_reset(t, 1)
    \/ \E t \in live : TimedOut(t)

\* the two-phase write
Viewing ==
    \/ \E t \in live : ringbuf_reserve(t, 1)
    \/ \E t \in live : WriteView(t)
    \/ \E t \in live : Whole(t) /\ ringbuf_commit(t, 1)

\* the calls that move a cursor without a copy
Moving ==
    \/ \E t \in live : ringbuf_move_tail(t, 1)
    \/ \E t \in live : ringbuf_move_head(t, 1)

\* the state after a construction in which the step fail has failed, if any:
\* it is the last call that returned, and no thread has the buffer when it
\* returned NULL
InitNew ==
    /\ \E size \in 1..MaxNew, block \in BOOLEAN, fail \in Steps \cup {NoStep} :
         /\ rb = [b \in Bufs |-> NewStruct(size, block, fail)]
         /\ live = IF NewReturns(fail) = NULL THEN {} ELSE {1}
         /\ last = [NoLast EXCEPT !.op = "new", !.rb = 1, !.size = size,
                                  !.ret = NewReturns(fail)]
                    @@ [fail |-> fail]
    /\ mutex = [b \in Bufs |-> NoThread]
    /\ readable = [b \in Bufs |-> {}]
    /\ writeable = [b \in Bufs |-> {}]
    /\ pc = [t \in Threads |-> "idle"]
    /\ call = [t \in Threads |-> NoCall]
    /\ extra = 0
    /\ crashed = FALSE
    /\ oob = FALSE
    /\ view = [t \in Threads |-> NoView]
    /\ fifo = [b \in Bufs |-> Empty]

\* one thread that pushes into what the construction returned and asks how
\* full it is
Filling ==
    \/ \E t \in live : ringbuf_push(t, 1)
    \/ \E t \in live : ringbuf_is_full(t, 1)
    \/ \E t \in live : SpuriousWakeup(t)

SpecNew == InitNew /\ [][Filling]_vars

\* threads sharing a buffer of one page, making any call
Init == InitWith({PageSize}, 0, Pair)
Next == Copying \/ Moving
Spec == Init /\ [][Next]_vars

\* one thread making the copying calls on a buffer of any of the sizes that
\* construction rounds a request to
InitSeq == InitWith(1..MaxReq, 0, {1})
SpecSeq == InitSeq /\ [][Copying]_vars

\* one thread making any call, also with a size of more than the capacity
InitAny == InitWith({PageSize}, 1, {1})
SpecAny == InitAny /\ [][Next]_vars

\* one thread that pushes, pops, and writes in two phases
InitView == InitWith(1..MaxReq, 0, {1})
SpecView == InitView /\ [][Queueing \/ Viewing]_vars

\* a producer that writes in two phases and a consumer that pops
Sharing ==
    \/ \E t \in live \cap Producers : ringbuf_reserve(t, 1)
    \/ \E t \in live \cap Producers : WriteView(t)
    \/ \E t \in live \cap Producers : Whole(t) /\ ringbuf_commit(t, 1)
    \/ \E t \in live \cap Consumers : ringbuf_pop(t, 1)
    \/ \E t \in live \cap Consumers : ringbuf_timed_pop(t, 1)
    \/ \E t \in live \cap Consumers : TimedOut(t)
    \/ \E t \in live : SpuriousWakeup(t)

InitShare == InitWith({PageSize}, 0, Pair)
SpecShare == InitShare /\ [][Sharing]_vars

\* the call that thread t makes, waits in or returns from is for one block
OneBlock(t) ==
    /\ pc'[t] = "wait" => call'[t].size = BlockSize
    /\ pc'[t] = "view" => view'[t].size = BlockSize
    /\ pc'[t] = "idle" => last'.size = BlockSize

\* a producer that reserves, fills and commits one block at a time, and
\* consumers that each ask for one block at a time, with a deadline
Blocks ==
    \/ \E t \in Producers : ringbuf_reserve(t, 1) /\ OneBlock(t)
    \/ \E t \in Producers : WriteView(t)
    \/ \E t \in Producers : Whole(t) /\ ringbuf_commit(t, 1)
    \/ \E t \in Consumers : ringbuf_timed_pop(t, 1) /\ OneBlock(t)
    \/ \E t \in Consumers : TimedOut(t)
    \/ \E t \in Threads : SpuriousWakeup(t)

InitBlocks == InitWith({2 * BlockSize}, 0, Threads) /\ rb[1].block_on_full
SpecBlocks == InitBlocks /\ [][Blocks]_vars

\* a producer thread that pushes and a consumer thread that pops, on a
\* blocking buffer
Pipe ==
    \/ \E t \in live \cap Producers : ringbuf_push(t, 1)
    \/ \E t \in live \cap Consumers : ringbuf_pop(t, 1)
    \/ \E t \in live : SpuriousWakeup(t)

InitPipe == InitWith(1..MaxReq, 0, Pair) /\ rb[1].block_on_full
SpecPipe == InitPipe /\ [][Pipe]_vars

\* threads that copy between two buffers in both directions, one of them
\* also pushing into the first buffer
Crossing ==
    \/ \E t \in live : ringbuf_direct_copy(t, 1, 2)
    \/ \E t \in live : ringbuf_direct_copy(t, 2, 1)
    \/ \E t \in live \cap Producers : ringbuf_push(t, 1)
    \/ \E t \in live : SpuriousWakeup(t)

\* one thread that pushes into the first buffer, copies from the first to the
\* second, and pops from the second
Chaining ==
    \/ \E t \in live : ringbuf_push(t, 1)
    \/ \E t \in live : ringbuf_direct_copy(t, 1, 2)
    \/ \E t \in live : ringbuf_pop(t, 2)
    \/ \E t \in live : SpuriousWakeup(t)

InitChain == InitWith({PageSize}, 0, {1})
SpecChain == InitChain /\ [][Chaining]_vars

InitCross == InitWith({PageSize}, 0, Pair)
SpecCross == InitCross /\ [][Crossing]_vars

\* one thread that pushes, pops, resets and asks for the accounting
Asking ==
    \/ \E t \in live : ringbuf_push(t, 1)
    \/ \E t \in live : ringbuf_pop(t, 1)
    \/ \E t \in live : ringbuf_reset(t, 1)
    \/ \E t \in live : ringbuf_bytes_free(t, 1)
    \/ \E t \in live : ringbuf_bytes_used(t, 1)
    \/ \E t \in live : ringbuf_is_full(t, 1)
    \/ \E t \in live : ringbuf_is_empty(t, 1)

InitAsk == InitWith(1..MaxReq, 0, {1})
SpecAsk == InitAsk /\ [][Asking]_vars

\* one thread that reserves, writes some of its range and commits, and asks
\* for the accounting
Parting ==
    \/ \E t \in live : ringbuf_reserve(t, 1)
    \/ \E t \in live : WriteView(t)
    \/ \E t \in live : ringbuf_commit(t, 1)
    \/ \E t \in live : ringbuf_pop(t, 1)
    \/ \E t \in live : ringbuf_bytes_free(t, 1)
    \/ \E t \in live : ringbuf_bytes_used(t, 1)

InitPart == InitWith(1..MaxReq, 0, {1})
SpecPart == InitPart /\ [][Parting]_vars

\* the empty buffer that pushes and pops of k bytes in all leave
Drained(r, k) == [r EXCEPT !.head = k, !.tail = k]

\* two threads that reserve, write, commit and push on a blocking buffer that
\* earlier calls have left empty, with no thread that consumes
InitClaim ==
    /\ \E size \in 1..MaxReq :
         \E k \in 0..(RoundSize(size) - 1) :
           rb = [b \in Bufs |-> Drained(ringbuf_new(size, TRUE), k)]
    /\ mutex = [b \in Bufs |-> NoThread]
    /\ readable = [b \in Bufs |-> {}]
    /\ writeable = [b \in Bufs |-> {}]
    /\ pc = [t \in Threads |-> "idle"]
    /\ call = [t \in Threads |-> NoCall]
    /\ extra = 0
    /\ live = Pair
    /\ crashed = FALSE
    /\ oob = FALSE
    /\ view = [t \in Threads |-> NoView]
    /\ fifo = [b \in Bufs |-> Empty]
    /\ last = NoLast

Claiming ==
    \/ \E t \in live : ringbuf_reserve(t, 1)
    \/ \E t \in live : WriteView(t)
    \/ \E t \in live : ringbuf_commit(t, 1)
    \/ \E t \in live : ringbuf_push(t, 1)
    \/ \E t \in live : SpuriousWakeup(t)

SpecClaim == InitClaim /\ [][Claiming]_vars

\* a producer that advances head with and without a copy, and a consumer that
\* waits for bytes; no wait ends without a signal
Waking ==
    \/ \E t \in live \cap Producers : ringbuf_push(t, 1)
    \/ \E t \in live \cap Producers : ringbuf_move_head(t, 1)
    \/ \E t \in live \cap Consumers : ringbuf_pop(t, 1)
    \/ \E t \in live \cap Consumers : ringbuf_move_tail(t, 1)
    \/ \E t \in live \cap Consumers : ringbuf_wait_for_data(t, 1)

\* a thread that a signal has woken goes on: it gets the mutex, which every
\* critical section gives back, and runs its loop condition again
Resumes(t) == pc[t] = "woken" /\ Waking /\ pc'[t] # "woken"

InitWake == InitWith({PageSize}, 0, Pair)
SpecWake == InitWake /\ [][Waking]_vars /\ \A t \in Pair : WF_vars(Resumes(t))

\* one thread that pushes, pops and asks where the cursors are, on a blocking
\* buffer
Wrapping ==
    \/ \E t \in live : ringbuf_push(t, 1)
    \/ \E t \in live : ringbuf_pop(t, 1)
    \/ \E t \in live : ringbuf_head(t, 1)
    \/ \E t \in live : ringbuf_tail(t, 1)
    \/ \E t \in live : SpuriousWakeup(t)

InitWrap == InitWith(1..MaxReq, 0, {1}) /\ rb[1].block_on_full
SpecWrap == InitWrap /\ [][Wrapping]_vars

\* thread t, woken by a signal, goes on with its call in a step of next
Resuming(t, next) == pc[t] = "woken" /\ next /\ pc'[t] # "woken"

\* three threads that push and pop on one buffer; no wait ends without a
\* signal
Herding ==
    \/ \E t \in live : ringbuf_push(t, 1)
    \/ \E t \in live : ringbuf_pop(t, 1)

InitHerd == InitWith({PageSize}, 0, Threads)
SpecHerd ==
    InitHerd /\ [][Herding]_vars /\ \A t \in Threads : WF_vars(Resuming(t, Herding))

\* a call of thread t for one block
Pushes(t) == ringbuf_push(t, 1) /\ OneBlock(t)
Pops(t) == ringbuf_pop(t, 1) /\ OneBlock(t)

\* a producer that pushes and a consumer that pops one block at a time, on a
\* blocking buffer of one, two or three blocks
Pumping ==
    \/ \E t \in live \cap Producers : Pushes(t)
    \/ \E t \in live \cap Consumers : Pops(t)
    \/ \E t \in live : SpuriousWakeup(t)

\* both sides keep running: each goes on with its call when it can, and makes
\* its next call when one has returned
InitPump == InitWith({BlockSize, 2 * BlockSize, 3 * BlockSize}, 0, Pair) /\ rb[1].block_on_full
SpecPump ==
    /\ InitPump
    /\ [][Pumping]_vars
    /\ \A t \in Pair \cap Producers : WF_vars(Pushes(t))
    /\ \A t \in Pair \cap Consumers : WF_vars(Pops(t))

\* a producer that pushes and reserves on a blocking buffer that nothing is
\* popped from, and a thread that resets it; no wait ends without a signal
Resetting ==
    \/ \E t \in live \cap Producers : ringbuf_push(t, 1)
    \/ \E t \in live \cap Producers : ringbuf_reserve(t, 1)
    \/ \E t \in live \cap Producers : ringbuf_commit(t, 1)
    \/ \E t \in live \cap Consumers : ringbuf_reset(t, 1)

InitReset == InitWith(1..MaxReq, 0, Pair) /\ rb[1].block_on_full
SpecReset ==
    InitReset /\ [][Resetting]_vars /\ \A t \in Pair : WF_vars(Resuming(t, Resetting))

-----------------------------------------------------------------------------
(* Claims *)

\* the bytes stored in buffer b, as the accounting of the code has them
Used(b) == ringbuf_bytes_used_unlocked(rb[b])
Free(b) == ringbuf_bytes_free_unlocked(rb[b])

\* C1: whenever no thread is inside a critical section, the cursors of the
\* buffer satisfy 0 <= head - tail <= capacity.
CursorsWithinCapacity ==
    /\ rb[1].tail <= rb[1].head
    /\ rb[1].head - rb[1].tail <= rb[1].buffer_size

\* C2: a pop of len(x) bytes, made when all that the buffer holds is one chunk
\* x pushed since it was empty, returns exactly x.
RoundTrip ==
    (last.op = "pop" /\ last.exact /\ last.whole /\ last.chunks = 1)
    => last.out = last.exp

\* a pop has just returned a chunk of capacity bytes, not all zero, that was
\* all the buffer held
RoundTripDone ==
    /\ last.op = "pop" /\ last.exact /\ last.whole /\ last.chunks = 1
    /\ last.size = rb[1].buffer_size
    /\ last.out = last.exp
    /\ \E i \in 1..last.size : last.out[i] # 0

\* C3: after pushes x1..xn that fit the capacity together, each pop of the
\* length of the oldest chunk still stored returns that chunk, so the pops
\* return x1..xn in order.
FifoLaw ==
    (last.op = "pop" /\ last.exact /\ last.whole /\ last.chunks >= 1)
    => last.out = last.exp

\* a pop has just returned the first of three chunks, leaving two different ones
FifoLawDone ==
    /\ last.op = "pop" /\ last.exact /\ last.whole /\ last.chunks = 3
    /\ last.out = last.exp
    /\ Len(fifo[1].chunks) = 2
    /\ fifo[1].chunks[1] # fifo[1].chunks[2]

\* C4: while pushes and pops keep the bytes stored within the capacity, every
\* pop returns the oldest bytes pushed and not yet popped, also when the copy
\* in or out crosses the end of the storage and the cursors are reduced.
WrapIntegrity ==
    (last.op = "pop" /\ last.exact /\ Len(last.exp) = last.size)
    => last.out = last.exp

\* a pop has just returned bytes of two values that lay across the end of the
\* storage, and the cursors were reduced
WrapIntegrityDone ==
    /\ last.op = "pop" /\ last.exact /\ Len(last.exp) = last.size
    /\ last.ret > rb[1].buffer_size
    /\ rb[1].tail = last.ret - rb[1].buffer_size
    /\ rb[1].tail < last.size
    /\ last.out = last.exp
    /\ \E i, j \in 1..last.size : last.out[i] # last.out[j]

\* the buffer of the last call as it was before the call, but for its bytes
LastPre == [rb[last.rb] EXCEPT !.head = last.head, !.tail = last.tail]
FreeBefore == ringbuf_bytes_free_unlocked(LastPre)
UsedBefore == ringbuf_bytes_used_unlocked(LastPre)

\* thread t is inside a call of op
Inside(t, op) == pc[t] # "idle" /\ call[t].op = op

\* thread t is still inside the same call after the step
StaysInside(t) == pc'[t] # "idle" /\ call'[t] = call[t]

\* the step is thread t going (back) to its wait
GoesToWait(t) == pc[t] # "wait" /\ pc'[t] = "wait"

\* C5: on a blocking buffer a push copies and advances head only when
\* bytes_free >= size, so it overwrites no byte that is pushed and not popped;
\* a pusher that finds bytes_free < size stays in its call and changes nothing.
PushNeverOverwrites ==
    /\ [] ( (rb[1].block_on_full /\ last.op = "push")
            => /\ FreeBefore >= last.size
               /\ last.exact => fifo[1].exact )
    /\ [][ \A t \in Threads :
             /\ ( /\ rb[1].block_on_full
                  /\ Inside(t, "push")
                  /\ Free(1) < call[t].size ) => StaysInside(t)
             /\ ( /\ rb[1].block_on_full
                  /\ GoesToWait(t)
                  /\ call'[t].op = "push" )
                => (rb' = rb /\ Free(1) < call'[t].size) ]_vars

\* a push has filled a blocking buffer and a second pusher waits for space
PushNeverOverwritesDone ==
    /\ rb[1].block_on_full
    /\ last.op = "push" /\ FreeBefore >= last.size
    /\ Free(1) = 0
    /\ \E t \in Threads : pc[t] = "wait" /\ call[t].op = "push" /\ t \in writeable[1]

TimedPopNeverUnderflows ==
    (last.op = "timed_pop" /\ last.ret # NULL) => UsedBefore >= last.size

\* C8: a call with a size of more than the capacity does not block and leaves
\* the cursors as they were.
OversizeFailsFast ==
    /\ \A t \in Threads : pc[t] # "idle" => call[t].size <= rb[1].buffer_size
    /\ last.size > rb[1].buffer_size
       => (rb[1].head = last.head /\ rb[1].tail = last.tail)

\* C9: on a non-blocking buffer a push of size <= capacity made when
\* bytes_free < size leaves the buffer full, head - tail = capacity.
PushEvictsOldest ==
    ( /\ last.op = "push"
      /\ ~rb[1].block_on_full
      /\ last.size <= rb[1].buffer_size
      /\ last.exact
      /\ FreeBefore < last.size )
    => /\ rb[1].head - rb[1].tail = rb[1].buffer_size
       /\ Free(1) = 0

\* C10: reserve, the writes of bytes b through the pointer and commit leave
\* the buffer as push (b) leaves the buffer that reserve was called on: head,
\* tail and content; and where that buffer was empty, the pop of as many bytes
\* that follows returns b.
ReserveCommitIsPush ==
    /\ [] ( last.op = "commit"
            => rb[1] = PushBody(last.view.pre, last.view.src, "fwd") )
    /\ [][ ( /\ last.op = "commit"
             /\ last.view.pre.head = last.view.pre.tail
             /\ last'.op = "pop"
             /\ last'.size = last.size )
           => last'.out = last.view.src ]_vars

\* two different bytes were committed that lie across the end of the first
\* mapping, after bytes already stored
ReserveCommitIsPushDone ==
    /\ last.op = "commit"
    /\ last.size >= 2
    /\ last.view.src[1] # last.view.src[2]
    /\ last.view.pre.head # last.view.pre.tail
    /\ last.view.off < rb[1].buffer_size
    /\ last.view.off + last.size > rb[1].buffer_size

\* the bytes of buffer b that were pushed or committed and not yet popped
Committed(b) == Len(Flat(fifo[b].chunks))

\* C11: the bytes that consumers see as used do not include the bytes of a
\* reserved range that is not committed, and a pop or timed_pop that finds
\* bytes_used >= size is handed committed bytes only.
ReservedInvisible ==
    /\ (fifo[1].exact /\ Pending(1) # {}) => Used(1) = Committed(1)
    /\ ( /\ last.op \in {"pop", "timed_pop"}
         /\ last.ret # NULL
         /\ last.exact
         /\ UsedBefore >= last.size )
       => Len(last.exp) = last.size

\* C12: every block that a consumer's timed_pop returns is the oldest
\* committed block that no consumer has been given, whole and as the producer
\* wrote it.
BlocksDeliveredOnce ==
    (last.op = "timed_pop" /\ last.ret # NULL)
    => /\ last.exact
       /\ last.whole
       /\ last.out = last.exp

\* C13: with one thread pushing and one thread popping on a blocking buffer,
\* the pushed chunks that are not yet popped are at all times every byte
\* between tail and head, and each pop returns the oldest of them, in order:
\* what the pops return, joined, is a prefix of what the pushes stored, joined.
PipePrefix ==
    /\ fifo[1].exact
    /\ Used(1) = Committed(1)
    /\ last.op = "pop"
       => /\ last.exact
          /\ Len(last.exp) = last.size
          /\ last.out = last.exp

\* a pop has returned two different bytes that two pushes stored, while the
\* producer was inside a third push
PipePrefixDone ==
    /\ last.op = "pop"
    /\ last.chunks >= 2
    /\ last.size = 2
    /\ ~last.whole
    /\ last.out[1] # last.out[2]
    /\ \E t \in Producers : pc[t] # "idle" /\ call[t].op = "push"

\* C14: no two threads inside ringbuf_direct_copy each hold one mutex and
\* wait for the mutex that the other holds.
SpliceNoDeadlock ==
    ~ \E t, u \in Threads :
        /\ t # u
        /\ pc[t] = "lock2" /\ pc[u] = "lock2"
        /\ mutex[call[t].rb] = t /\ mutex[call[t].dst] = u
        /\ mutex[call[u].rb] = u /\ mutex[call[u].dst] = t

\* the places of the memory object of r that n bytes at offset off go to
Places(r, off, n) == { (off + i) % r.buffer_size : i \in 0..(n - 1) }

\* C15: a ringbuf_direct_copy that returned, called when the source held at
\* least size bytes and the destination had at least size bytes free, has
\* copied the size oldest bytes of the source, in order, to the head of the
\* destination; the source has size bytes less in use and its bytes are as
\* they were, the destination has size bytes more in use and its other bytes
\* are as they were; and a pop from the destination returns its oldest bytes,
\* that is, the bytes copied to it in the order they were copied.
SpliceMoves ==
    /\ ( /\ last.op = "direct_copy"
         /\ last.exact /\ last.toexact
         /\ ringbuf_bytes_used_unlocked(last.from) >= last.size
         /\ ringbuf_bytes_free_unlocked(last.to) >= last.size )
       => /\ Len(last.exp) = last.size
          /\ last.out = last.exp
          /\ Used(last.rb) = ringbuf_bytes_used_unlocked(last.from) - last.size
          /\ Used(last.dst) = ringbuf_bytes_used_unlocked(last.to) + last.size
          /\ rb[last.rb].buf = last.from.buf
          /\ \A i \in 1..last.size :
               rb[last.dst].buf[(last.to.head + i - 1) % last.to.buffer_size]
                 = last.exp[i]
          /\ \A p \in DOMAIN last.to.buf \ Places(last.to, last.to.head, last.size) :
               rb[last.dst].buf[p] = last.to.buf[p]
          /\ fifo[last.rb].exact /\ fifo[last.dst].exact
    /\ (last.op = "pop" /\ last.rb = 2 /\ last.exact /\ UsedBefore >= last.size)
       => (Len(last.exp) = last.size /\ last.out = last.exp)

\* two different bytes, stored across the end of the source, were copied
\* across the end of the destination
SpliceMovesDone ==
    /\ last.op = "direct_copy"
    /\ last.exact /\ last.toexact
    /\ ringbuf_bytes_used_unlocked(last.from) >= last.size
    /\ ringbuf_bytes_free_unlocked(last.to) >= last.size
    /\ last.size = 2
    /\ last.out[1] # last.out[2]
    /\ last.from.tail + 1 = last.from.buffer_size
    /\ last.to.head + 1 = last.to.buffer_size

\* C16: in every state bytes_free + bytes_used = buffer_size in the integers,
\* with bytes_used = head - tail and bytes_free = buffer_size - bytes_used,
\* and this is what ringbuf_bytes_free and ringbuf_bytes_used return.
AccountingExact ==
    /\ Free(1) + Used(1) = rb[1].buffer_size
    /\ Used(1) = rb[1].head - rb[1].tail
    /\ Free(1) = rb[1].buffer_size - Used(1)
    /\ last.op = "bytes_used" => last.ret = last.head - last.tail
    /\ last.op = "bytes_free"
       => last.ret = rb[1].buffer_size - (last.head - last.tail)

\* C17: ringbuf_is_empty returns TRUE exactly when head = tail.
IsEmptyExact ==
    last.op = "is_empty" => (last.ret = TRUE_ <=> last.head = last.tail)

\* C18: ringbuf_is_full returns TRUE exactly when bytes_free is 0, which is
\* when head - tail is the buffer size.
IsFullExact ==
    last.op = "is_full"
    => /\ last.ret = TRUE_ <=> FreeBefore = 0
       /\ last.ret = TRUE_ <=> last.head - last.tail = rb[1].buffer_size

\* the buffer is found full after a push, a pop and two more pushes of half
\* its size each: tail is at the middle and head past the end of the first
\* mapping
IsFullExactDone ==
    /\ last.op = "is_full"
    /\ last.ret = TRUE_
    /\ 2 * last.tail = rb[1].buffer_size
    /\ last.head > rb[1].buffer_size
    /\ fifo[1].exact
    /\ Len(fifo[1].chunks) = 2

\* C19: after ringbuf_reset head and tail are 0, no byte is in use and the
\* whole buffer is free, whatever the state before; the call leaves the size
\* of the buffer, its mode and its storage as they were.
ResetEmpties ==
    /\ [] ( last.op = "reset"
            => /\ rb[1].head = 0 /\ rb[1].tail = 0
               /\ Used(1) = 0
               /\ Free(1) = rb[1].buffer_size )
    /\ [][ last'.op = "reset"
           => /\ rb'[1].buffer_size = rb[1].buffer_size
              /\ rb'[1].block_on_full = rb[1].block_on_full
              /\ rb'[1].buf = rb[1].buf ]_vars

\* a reset was made of a buffer whose head was more than the buffer size
\* ahead of its tail, while another thread waited
ResetEmptiesDone ==
    /\ last.op = "reset"
    /\ last.head - last.tail > rb[1].buffer_size
    /\ \E t \in Threads : pc[t] = "wait"

\* C20: after a reserve on an empty buffer and a commit made when n bytes of
\* the range, fewer than reserved, were written, n bytes are in use and the
\* rest is free.
PartialCommit ==
    ( /\ last.op = "commit"
      /\ last.view.pre.head = last.view.pre.tail
      /\ Len(last.view.src) < last.view.size )
    => /\ Used(1) = Len(last.view.src)
       /\ Free(1) = rb[1].buffer_size - Len(last.view.src)

\* the sizes a buffer can have for a request of size bytes
Fits(c, size) == c % PageSize = 0 /\ c >= size /\ c >= 2 * PageSize

\* C21: the buffer size that the construction chooses for a request is a
\* multiple of the page size, at least the request and at least two pages,
\* and the least such size.
RoundsToPages ==
    (last.op = "new" /\ last.ret # NULL)
    => /\ Fits(rb[1].buffer_size, last.size)
       /\ \A c \in 1..(rb[1].buffer_size - 1) : ~Fits(c, last.size)

\* C22: a construction in which a step has failed returns NULL.
NewFailsWhole ==
    (last.op = "new" /\ last.fail # NoStep) => last.ret = NULL

\* C23: a pop of n bytes that returned has left n more bytes free and
\* head - tail less by n; where it reduced the cursors, it reduced both by the
\* buffer size and head did not go below 0.
PopFrame ==
    last.op = "pop"
    => /\ Free(1) = GAdd(FreeBefore, last.size)
       /\ rb[1].head - rb[1].tail = (last.head - last.tail) - last.size
       /\ \/ /\ rb[1].tail = last.tail + last.size
             /\ rb[1].head = last.head
          \/ /\ rb[1].tail = last.tail + last.size - rb[1].buffer_size
             /\ rb[1].head = last.head - rb[1].buffer_size

\* C24: a thread that is blocked on a condition variable inside a call holds
\* the mutex of no buffer, so that the other threads can take the mutex of
\* the destination while a copy between buffers waits for data in its source.
WaitersHoldNothing ==
    \A t \in Threads : pc[t] = "wait" => \A b \in Bufs : mutex[b] # t

\* C25: no thread is at a g_mutex_lock of a mutex that it holds; the copy
\* between buffers that asks for the free space of a blocking destination is
\* at such a lock when it calls ringbuf_bytes_free.
NoRelock ==
    \A t \in Threads : pc[t] = "relock" => mutex[call[t].dst] # t

\* C26: a copy between buffers that returned found at least size bytes stored
\* in its source and, with a blocking destination, at least size bytes free
\* in it; it has left the tail of the source at or before its head.
SpliceOnlyWhenReady ==
    last.op = "direct_copy"
    => /\ ringbuf_bytes_used_unlocked(last.from) >= last.size
       /\ last.to.block_on_full
            => ringbuf_bytes_free_unlocked(last.to) >= last.size
       /\ rb[last.rb].tail <= rb[last.rb].head

\* the places in the storage of the n bytes from the offset off of buffer r
Phys(r, off, n) == { (off + i) % r.buffer_size : i \in 0..(n - 1) }

\* the places of the range that thread t holds
Held(t) == Phys(rb[view[t].rb], view[t].off, view[t].size)

\* C27: on a blocking buffer that no thread consumes from, the ranges that
\* threads hold from ringbuf_reserve share no place with each other; the range
\* that a reserve returned shares none with the bytes stored between tail and
\* head when it was called, and a push stores to no place of a held range.
RangesExclusive ==
    /\ \A t, u \in Pending(1) : t # u => Held(t) \cap Held(u) = {}
    /\ last.op = "reserve"
         => Phys(rb[1], last.ret, last.size)
              \cap Phys(rb[1], last.tail, GSub(last.head, last.tail)) = {}
    /\ last.op = "push"
         => \A t \in Pending(1) :
              Held(t) \cap Phys(rb[1], last.head, last.size) = {}

\* two threads hold ranges, one of them past the end of the first mapping
RangesExclusiveDone ==
    /\ Pending(1) = Pair
    /\ \E t \in Pair : view[t].off + view[t].size > rb[1].buffer_size

\* thread t is blocked in a call that waits for bytes, and the bytes are there
Starved(t) ==
    /\ pc[t] = "wait"
    /\ call[t].op \in {"pop", "move_tail", "wait_for_data"}
    /\ ringbuf_bytes_used_unlocked(rb[call[t].rb]) >= call[t].size

\* C28: a consumer that is blocked in pop, move_tail or wait_for_data for size
\* bytes returns once at least size bytes are stored, whichever call has
\* advanced head.
BlockedConsumerReturns ==
    \A t \in Consumers : Starved(t) ~> pc[t] = "idle"

\* C29: after every call that returned, tail is less than the buffer size and
\* head less than twice the buffer size.
CursorsBounded ==
    last.op \notin {"none", "new"}
    => \A b \in Bufs : /\ rb[b].tail < rb[b].buffer_size
                       /\ rb[b].head < 2 * rb[b].buffer_size

\* buffer 1 holds half its size, from the middle of the storage to its end:
\* the state after a push, a pop and a push of half the size each
HalfWrapped ==
    /\ 2 * rb[1].tail = rb[1].buffer_size
    /\ 2 * Used(1) = rb[1].buffer_size
    /\ fifo[1].exact

\* C30: ringbuf_head returns the place head modulo the buffer size: called
\* after a push, a pop and a push of half the size each, it returns a pointer
\* below the one that ringbuf_tail returns.
HeadBelowTail ==
    (last.op = "head" /\ HalfWrapped)
    => /\ last.ret = rb[1].head % rb[1].buffer_size
       /\ last.ret < TailPointer(rb[1])

\* thread t is blocked in a call that waits for space, and the space is there
Stalled(t) ==
    /\ pc[t] = "wait"
    /\ call[t].op \in {"push", "reserve"}
    /\ ringbuf_bytes_free_unlocked(rb[call[t].rb]) >= call[t].size

\* C31: with several threads blocked on one buffer, no thread stays blocked
\* for ever in a pop while the bytes it asks for are stored, or in a push
\* while the space it asks for is free.
NoLostWakeup ==
    \A t \in Threads : (Starved(t) \/ Stalled(t)) ~> ~(Starved(t) \/ Stalled(t))

\* C32: with a producer and a consumer of blocks of one size on a blocking
\* buffer of a multiple of that size, the two are never both blocked, and
\* every push and pop that has started returns.
PumpRuns ==
    /\ [](\E t \in Pair : pc[t] # "wait")
    /\ \A t \in Pair : (pc[t] # "idle") ~> (pc[t] = "idle")

\* the producer, blocked on the full buffer, has been woken by the pop that
\* has just returned
PumpRunsDone ==
    /\ last.op = "pop"
    /\ \E t \in Producers : pc[t] = "woken" /\ call[t].op = "push"
    /\ Free(1) = BlockSize

\* C33: a producer blocked in push or reserve on a blocking buffer leaves its
\* wait once a reset has made the space it asks for free, with no pop.
ResetWakesWriters ==
    \A t \in Producers : Stalled(t) ~> pc[t] # "wait"

\* C34: no call has copied bytes to or from a place outside the two mappings
\* of the storage, the offsets 0 to twice the buffer size from buf.
CopiesInsideWindow == ~oob /\ ~crashed

=============================================================================
